---- MODULE Spec2Model ----
(***************************************************************************)
(* adler32_avx512_vnni (arch/x86/adler32_avx512_vnni.c): the AVX512-VNNI   *)
(* Adler-32 kernel of zlib-ng, as a state machine.                         *)
(*                                                                         *)
(* One behaviour is one call (Spec), or three calls issued by a caller     *)
(* that checks composability (SplitSpec): the whole buffer, then a prefix, *)
(* then the suffix seeded with the prefix's result.                        *)
(*                                                                         *)
(* Numbers.  TLC's integers are 32-bit signed, the kernel's are 32-bit     *)
(* unsigned, so a 32-bit quantity is a pair <<hi, lo>> of 16-bit limbs,    *)
(* value hi * 2^16 + lo.  The same pair with an unbounded hi is a "wide"   *)
(* number: the mathematical result of an operation before it is cut to 32  *)
(* bits.  A packed checksum sum2 << 16 | sum1 is the pair <<sum2, sum1>>.  *)
(***************************************************************************)
EXTENDS Integers, Sequences, FiniteSets, TLC

VARIABLES
    X86_SSE41_ADLER32,  \* build flag: the SSE4.1 kernel is compiled in
    X86_AVX2_ADLER32,   \* build flag: the AVX2 kernel is compiled in
    B,                  \* the caller's buffer: a content pattern, or "null"
    N,                  \* the caller's buffer length
    seed,               \* the caller's initial packed checksum
    split,              \* the caller's split offset (SplitSpec)
    phase,              \* which call is running: "whole", "prefix", "suffix"
    results,            \* packed results of the calls already returned
    arg_adler,          \* this call's argument adler (packed)
    first,              \* this call's argument buf, as an offset into B
    n,                  \* this call's argument len
    pc,                 \* position in adler32_avx512_vnni
    adler, sum2,        \* the scalar component sums
    buf,                \* the moving pointer, as an offset into B
    len,                \* the remaining length
    k,                  \* the bytes left in the current chunk
    vs1, vs2, vs3, vs2_1, vs1_0,   \* the zmm accumulators, 16 lanes each
    delegate,           \* the external handler the call returned through
    ret,                \* the call's return value (packed)
    overflow,           \* history: some 32-bit operation carried out of bit 31
    ref_sum1, ref_sum2, ref_carry  \* history: the scalar recurrence, unreduced,
                                   \* run over the sub-blocks of the chunk

vars == <<X86_SSE41_ADLER32, X86_AVX2_ADLER32, B, N, seed, split, phase, results,
          arg_adler, first, n, pc, adler, sum2, buf, len, k,
          vs1, vs2, vs3, vs2_1, vs1_0, delegate, ret, overflow,
          ref_sum1, ref_sum2, ref_carry>>

(***************************************************************************)
(* Program constants.                                                      *)
(***************************************************************************)
BASE == 65521
NMAX == 5552

(***************************************************************************)
(* Bounds of the model.                                                    *)
(***************************************************************************)
MaxChunks == 4

(***************************************************************************)
(* 32-bit and wide arithmetic on limb pairs.                               *)
(***************************************************************************)
Limb == 2^16

WNat(x) == <<x \div Limb, x % Limb>>

WAdd(a, b) ==
    LET lo == a[2] + b[2]
    IN  <<a[1] + b[1] + (lo \div Limb), lo % Limb>>

WShl(a, bits) ==
    LET lo == a[2] * (2^bits)
    IN  <<a[1] * (2^bits) + (lo \div Limb), lo % Limb>>

Fits32(a) == a[1] < Limb

Wrap32(a) == <<a[1] % Limb, a[2]>>

WMod(a, m) == ((a[1] % m) * (Limb % m) + a[2]) % m

Lanes == 0..15

\* The register f with every lane computed, once.
Lane16(f) ==
    (0 :> f[0]) @@ (1 :> f[1]) @@ (2 :> f[2]) @@ (3 :> f[3])
        @@ (4 :> f[4]) @@ (5 :> f[5]) @@ (6 :> f[6]) @@ (7 :> f[7])
        @@ (8 :> f[8]) @@ (9 :> f[9]) @@ (10 :> f[10]) @@ (11 :> f[11])
        @@ (12 :> f[12]) @@ (13 :> f[13]) @@ (14 :> f[14]) @@ (15 :> f[15])

ZeroW == <<0, 0>>

VFits(v) == \A j \in Lanes : Fits32(v[j])

VWrap(v) == Lane16([j \in Lanes |-> Wrap32(v[j])])

(***************************************************************************)
(* The buffer.  Its content is a pattern, so that long buffers cost no     *)
(* state: every byte 0xFF, the ASCII text "Wikipedia" repeated, or a       *)
(* quadratic ramp.  "null" is the null pointer.                            *)
(***************************************************************************)
Wikipedia == <<87, 105, 107, 105, 112, 101, 100, 105, 97>>

Byte(i) ==
    CASE B = "ff"   -> 255
      [] B = "wiki" -> Wikipedia[(i % 9) + 1]
      [] B = "ramp" -> (i * i + 3 * i + 7) % 256
      [] OTHER      -> 0

(***************************************************************************)
(* The scalar Adler-32 definition: sum1 += byte; sum2 += sum1; both mod    *)
(* BASE, byte by byte.  A state is <<sum1, sum2>>; ScalarFold runs the     *)
(* recurrence over B[a..b), halving the range to keep the recursion flat   *)
(* (binding the first half's result in a singleton set makes TLC compute   *)
(* it once, before the second half starts).                                *)
(***************************************************************************)
ScalarStep(s, byte) ==
    LET s1 == (s[1] + byte) % BASE
    IN  <<s1, (s[2] + s1) % BASE>>

RECURSIVE ScalarFold(_, _, _)
ScalarFold(s, a, b) ==
    IF a >= b THEN s
    ELSE IF b = a + 1 THEN ScalarStep(s, Byte(a))
    ELSE LET m == (a + b) \div 2
         IN  CHOOSE r \in {ScalarFold(half, m, b) : half \in {ScalarFold(s, a, m)}} : TRUE

Pack(s) == <<s[2], s[1]>>

(***************************************************************************)
(* The external collaborators, by their contract: each returns the packed  *)
(* checksum the scalar definition yields from the state it is given.       *)
(***************************************************************************)
adler32_len_16(a, off, l, s2) ==
    Pack(ScalarFold(<<a % BASE, s2 % BASE>>, off, off + l))

adler32_len_1(a, off, s2) ==
    Pack(ScalarFold(<<a % BASE, s2 % BASE>>, off, off + 1))

narrow_checksum(packed, off, l) ==
    Pack(ScalarFold(<<packed[2] % BASE, packed[1] % BASE>>, off, off + l))

\* What a narrow kernel may return: its contract's value; on a null buffer the
\* contract leaves open whether it is that value or the initial checksum 1.
NarrowResults(packed, off, l) ==
    {narrow_checksum(packed, off, l)} \cup (IF B = "null" THEN {<<0, 1>>} ELSE {})

adler32_sse41(packed, off, l) == NarrowResults(packed, off, l)

adler32_avx2(packed, off, l) == NarrowResults(packed, off, l)

\* The horizontal sums of adler32_avx512_p.h, as wide numbers.
RECURSIVE LimbSum(_, _, _, _)
LimbSum(v, limb, j, step) ==
    IF j > 15 THEN 0 ELSE v[j][limb] + LimbSum(v, limb, j + step, step)

HSum(v, j, step) ==
    LET lo == LimbSum(v, 2, j, step)
    IN  <<LimbSum(v, 1, j, step) + (lo \div Limb), lo % Limb>>

partial_hsum(v) == HSum(v, 0, 2)

reduce_add_epu32(v) == HSum(v, 0, 1)

(***************************************************************************)
(* The intrinsics.  A 512-bit register of bytes is a function on 0..63, a  *)
(* register of 32-bit lanes a function on 0..15.  The arithmetic ones give *)
(* the wide (uncut) lanes; the caller cuts them to 32 bits.                *)
(***************************************************************************)
Abs(x) == IF x < 0 THEN -x ELSE x

loadu_si512(off) == [i \in 0..63 |-> Byte(off + i)]

setzero_si512 == Lane16([j \in Lanes |-> ZeroW])

zero == [i \in 0..63 |-> 0]

\* Mutant: the scalar placed in lane 1.
zext_cvtsi32_Lane1(x) == Lane16([j \in Lanes |-> IF j = 1 THEN WNat(x) ELSE ZeroW])

\* _mm512_zextsi128_si512(_mm_cvtsi32_si128(x)): x in lane 0, zero above.
zext_cvtsi32(x) == Lane16([j \in Lanes |-> IF j = 0 THEN WNat(x) ELSE ZeroW])

\* Mutant: the weights listed from the lowest byte up.
dot2v_Ascending == [i \in 0..63 |-> i + 1]

\* _mm512_set_epi8(1, 2, ..., 64) lists the bytes from the highest down:
\* byte i of the register holds 64 - i.
dot2v == [i \in 0..63 |-> 64 - i]

\* _mm512_sad_epu8: per 64-bit lane, the sum of the 8 absolute differences,
\* in the low 16 bits of the lane, i.e. in the even 32-bit lane.
sad_epu8(a, b) ==
    Lane16([j \in Lanes |->
        IF j % 2 = 0
        THEN LET o == 4 * j
             IN  WNat(Abs(a[o] - b[o]) + Abs(a[o+1] - b[o+1])
                      + Abs(a[o+2] - b[o+2]) + Abs(a[o+3] - b[o+3])
                      + Abs(a[o+4] - b[o+4]) + Abs(a[o+5] - b[o+5])
                      + Abs(a[o+6] - b[o+6]) + Abs(a[o+7] - b[o+7]))
        ELSE ZeroW])

add_epi32(a, b) == Lane16([j \in Lanes |-> WAdd(a[j], b[j])])

\* _mm512_dpbusd_epi32: per 32-bit lane, src plus the 4 products of the
\* unsigned bytes of a with the signed bytes of b.
dpbusd_epi32(src, a, b) ==
    Lane16([j \in Lanes |->
        LET o == 4 * j
        IN  WAdd(src[j], WNat(a[o] * b[o] + a[o+1] * b[o+1]
                              + a[o+2] * b[o+2] + a[o+3] * b[o+3]))])

slli_epi32(a, bits) == Lane16([j \in Lanes |-> WShl(a[j], bits)])

(***************************************************************************)
(* The history of the scalar recurrence inside a chunk, unreduced: run     *)
(* byte by byte over B[off .. off+cnt) from <<sum1, sum2>>, sum2 wide.     *)
(***************************************************************************)
RefStep(r, byte) ==
    LET s1 == r[1] + byte
    IN  <<s1, WAdd(r[2], WNat(s1))>>

RECURSIVE RefRun(_, _, _)
RefRun(r, off, cnt) ==
    IF cnt = 0 THEN r
    ELSE IF cnt = 1 THEN RefStep(r, Byte(off))
    ELSE LET h == cnt \div 2
         IN  CHOOSE t \in {RefRun(half, off + h, cnt - h) : half \in {RefRun(r, off, h)}} : TRUE

(***************************************************************************)
(* adler32_avx512_vnni, step by step.                                      *)
(***************************************************************************)
\* Mutant: the SSE4.1 threshold taken for the 16-byte one.
UseSSE41_Below16 == X86_SSE41_ADLER32 /\ n < 16

UseSSE41 == X86_SSE41_ADLER32 /\ n < 32

UseAVX2 == X86_AVX2_ADLER32 /\ n < 64

CornerCases == ~X86_AVX2_ADLER32 /\ ~X86_SSE41_ADLER32

\* Mutant: the shift by 16 forgotten.
SplitHi_NoShift(packed) == packed[2] % Limb

\* sum2 = (adler >> 16) & 0xffff
SplitHi(packed) == packed[1] % Limb

\* Mutant: the high half taken for sum1.
SplitLo_HighHalf(packed) == packed[1] % Limb

\* adler &= 0xffff
SplitLo(packed) == packed[2] % Limb

\* Mutant: the reduction mod BASE forgotten.
ModBase_Forgotten(w) == w[1] * Limb + w[2]

ModBase(w) == WMod(w, BASE)

\* Mutant: the chunk not clipped to NMAX.
ChunkSize_NoClip(l) == l - (l % 64)

\* Mutant: the chunk rounded down to the unrolled step.
ChunkSize_Round128(l) ==
    LET k0 == IF l < NMAX THEN l ELSE NMAX
    IN  k0 - (k0 % 128)

\* int k = (len < NMAX ? (int)len : NMAX); k -= k % 64;
ChunkSize(l) ==
    LET k0 == IF l < NMAX THEN l ELSE NMAX
    IN  k0 - (k0 % 64)

\* Mutant: the peel tested against the sub-block width.
PeelNeeded_Width64(kk) == kk % 64 # 0

PeelNeeded(kk) == kk % 128 # 0

\* Mutant: the carry accumulator scaled by 32.
CarryScale_Shift5(v) == slli_epi32(v, 5)

\* vs3 = _mm512_slli_epi32(vs3, 6)
CarryScale(v) == slli_epi32(v, 6)

Returns(value, through) ==
    /\ ret' = value
    /\ delegate' = through
    /\ pc' = "done"

Inputs == <<X86_SSE41_ADLER32, X86_AVX2_ADLER32, B, N, seed, split, phase,
            results, arg_adler, first, n>>

Registers == <<vs1, vs2, vs3, vs2_1, vs1_0>>

History == <<overflow, ref_sum1, ref_sum2, ref_carry>>

\* if (len < 32) return adler32_sse41(adler, buf, len);
DispatchSSE41 ==
    /\ pc = "entry"
    /\ UseSSE41
    /\ \E r \in adler32_sse41(arg_adler, first, n) : Returns(r, "adler32_sse41")
    /\ UNCHANGED <<Inputs, Registers, History, adler, sum2, buf, len, k>>

\* if (len < 64) return adler32_avx2(adler, buf, len);
DispatchAVX2 ==
    /\ pc = "entry"
    /\ ~UseSSE41
    /\ UseAVX2
    /\ \E r \in adler32_avx2(arg_adler, first, n) : Returns(r, "adler32_avx2")
    /\ UNCHANGED <<Inputs, Registers, History, adler, sum2, buf, len, k>>

\* The split of adler into its component sums, which every later path passes.
SplitAdler ==
    /\ sum2' = SplitHi(arg_adler)
    /\ adler' = SplitLo(arg_adler)

\* if (UNLIKELY(len == 1)) return adler32_len_1(adler, buf, sum2);
CornerLen1 ==
    /\ pc = "entry"
    /\ CornerCases
    /\ n = 1
    /\ SplitAdler
    /\ Returns(adler32_len_1(adler', first, sum2'), "adler32_len_1")
    /\ UNCHANGED <<Inputs, Registers, History, buf, len, k>>

\* if (UNLIKELY(buf == NULL)) return 1L;
CornerNull ==
    /\ pc = "entry"
    /\ CornerCases
    /\ n # 1
    /\ B = "null"
    /\ SplitAdler
    /\ Returns(<<0, 1>>, "none")
    /\ UNCHANGED <<Inputs, Registers, History, buf, len, k>>

\* if (UNLIKELY(len < 16)) return adler32_len_16(adler, buf, len, sum2);
CornerLen16 ==
    /\ pc = "entry"
    /\ CornerCases
    /\ n # 1
    /\ B # "null"
    /\ n < 16
    /\ SplitAdler
    /\ Returns(adler32_len_16(adler', first, n, sum2'), "adler32_len_16")
    /\ UNCHANGED <<Inputs, Registers, History, buf, len, k>>

\* No early return: the split, then vs1 and vs2 seeded from the scalars.
EnterKernel ==
    /\ pc = "entry"
    /\ ~UseSSE41
    /\ ~UseAVX2
    /\ CornerCases => (n # 1 /\ B # "null" /\ n >= 16)
    /\ SplitAdler
    /\ vs1' = zext_cvtsi32(adler')
    /\ vs2' = zext_cvtsi32(sum2')
    /\ pc' = "outer"
    /\ UNCHANGED <<Inputs, History, vs3, vs2_1, vs1_0, buf, len, k, delegate, ret>>

\* while (len >= 64) { k = ...; len -= k; vs1_0 = vs1; vs3 = 0; vs2_1 = 0;
ChunkBegin ==
    /\ pc = "outer"
    /\ len >= 64
    /\ k' = ChunkSize(len)
    /\ len' = len - k'
    /\ vs1_0' = vs1
    /\ vs3' = setzero_si512
    /\ vs2_1' = setzero_si512
    /\ ref_sum1' = adler
    /\ ref_sum2' = WNat(sum2)
    /\ ref_carry' = 0
    /\ pc' = "peel"
    /\ UNCHANGED <<Inputs, vs1, vs2, adler, sum2, buf, delegate, ret, overflow>>

\* if (k % 128) { ... }: one sub-block peeled.  (\E x \in {e} binds x to the
\* value of e, computed once.)
Peel ==
    /\ pc = "peel"
    /\ PeelNeeded(k)
    /\ \E vbuf1 \in {loadu_si512(buf)} :
       \E vs1_sad \in {sad_epu8(vbuf1, zero)} :
       \E w_vs1 \in {add_epi32(vs1, vs1_sad)} :
       \E w_vs3 \in {add_epi32(vs3, vs1_0)} :
       \E w_vs2 \in {dpbusd_epi32(vs2, vbuf1, dot2v)} :
       \E r \in {RefRun(<<ref_sum1, ref_sum2>>, buf, 64)} :
           /\ vs1' = VWrap(w_vs1)
           /\ vs3' = VWrap(w_vs3)
           /\ vs2' = VWrap(w_vs2)
           /\ vs1_0' = vs1'
           /\ overflow' = (overflow \/ ~VFits(w_vs1) \/ ~VFits(w_vs3) \/ ~VFits(w_vs2))
           /\ ref_carry' = ref_carry + ref_sum1
           /\ ref_sum1' = r[1]
           /\ ref_sum2' = r[2]
    /\ buf' = buf + 64
    /\ k' = k - 64
    /\ pc' = "inner"
    /\ UNCHANGED <<Inputs, vs2_1, adler, sum2, len, delegate, ret>>

\* if (k % 128) not taken.
NoPeel ==
    /\ pc = "peel"
    /\ ~PeelNeeded(k)
    /\ pc' = "inner"
    /\ UNCHANGED <<Inputs, Registers, History, adler, sum2, buf, len, k, delegate, ret>>

\* while (k >= 128) { ... }: one iteration, two sub-blocks.
Unrolled ==
    /\ pc = "inner"
    /\ k >= 128
    /\ \E vbuf0 \in {loadu_si512(buf)} :
       \E vbuf1 \in {loadu_si512(buf + 64)} :
       \E vs1_sad0 \in {sad_epu8(vbuf0, zero)} :
       \E w_vs1a \in {add_epi32(vs1, vs1_sad0)} :
       \E vs1a \in {VWrap(w_vs1a)} :
       \E w_vs3a \in {add_epi32(vs3, vs1_0)} :
       \E w_vs2 \in {dpbusd_epi32(vs2, vbuf0, dot2v)} :
       \E w_vs3b \in {add_epi32(VWrap(w_vs3a), vs1a)} :
       \E vs1_sad1 \in {sad_epu8(vbuf1, zero)} :
       \E w_vs1b \in {add_epi32(vs1a, vs1_sad1)} :
       \E w_vs2_1 \in {dpbusd_epi32(vs2_1, vbuf1, dot2v)} :
       \E r0 \in {RefRun(<<ref_sum1, ref_sum2>>, buf, 64)} :
       \E r1 \in {RefRun(r0, buf + 64, 64)} :
           /\ vs1' = VWrap(w_vs1b)
           /\ vs3' = VWrap(w_vs3b)
           /\ vs2' = VWrap(w_vs2)
           /\ vs2_1' = VWrap(w_vs2_1)
           /\ vs1_0' = vs1'
           /\ overflow' = (overflow \/ ~VFits(w_vs1a) \/ ~VFits(w_vs3a) \/ ~VFits(w_vs2)
                             \/ ~VFits(w_vs3b) \/ ~VFits(w_vs1b) \/ ~VFits(w_vs2_1))
           /\ ref_carry' = ref_carry + ref_sum1 + r0[1]
           /\ ref_sum1' = r1[1]
           /\ ref_sum2' = r1[2]
    /\ buf' = buf + 128
    /\ k' = k - 128
    /\ UNCHANGED <<Inputs, adler, sum2, len, pc, delegate, ret>>

\* After the inner loop: vs3 scaled and folded into vs2, both accumulators
\* reduced to the scalars mod BASE and seeded back into lane 0.
ChunkEnd ==
    /\ pc = "inner"
    /\ k < 128
    /\ \E w_vs3 \in {CarryScale(vs3)} :
       \E w_vs2a \in {add_epi32(vs2, VWrap(w_vs3))} :
       \E w_vs2b \in {add_epi32(VWrap(w_vs2a), vs2_1)} :
       \E w_h1 \in {partial_hsum(vs1)} :
       \E w_h2 \in {reduce_add_epu32(VWrap(w_vs2b))} :
           /\ vs3' = VWrap(w_vs3)
           /\ adler' = ModBase(Wrap32(w_h1))
           /\ sum2' = ModBase(Wrap32(w_h2))
           /\ vs1' = zext_cvtsi32(adler')
           /\ vs2' = zext_cvtsi32(sum2')
           /\ overflow' = (overflow \/ ~VFits(w_vs3) \/ ~VFits(w_vs2a) \/ ~VFits(w_vs2b)
                             \/ ~Fits32(w_h1) \/ ~Fits32(w_h2))
    /\ pc' = "outer"
    /\ UNCHANGED <<Inputs, vs2_1, vs1_0, buf, len, k, delegate, ret,
                   ref_sum1, ref_sum2, ref_carry>>

\* return adler32_len_16(adler, buf, len, sum2);
TailCall ==
    /\ pc = "outer"
    /\ len < 64
    /\ Returns(adler32_len_16(adler, buf, len, sum2), "adler32_len_16")
    /\ UNCHANGED <<Inputs, Registers, History, adler, sum2, buf, len, k>>

(***************************************************************************)
(* The calls.  Lengths cover the dispatch thresholds, odd and even counts  *)
(* of 64-byte sub-blocks, and the NMAX chunk boundaries up to MaxChunks    *)
(* chunks; seeds are the initial checksum 1, the largest in-range state    *)
(* and the all-ones word (both halves out of range).  The build flags are  *)
(* read only by the dispatch on lengths below 64, so the lengths up to a   *)
(* few blocks run under all four builds and the long ones under the build  *)
(* with both narrow kernels.                                               *)
(***************************************************************************)
ShortLens == {0, 1, 9, 15, 16, 31, 32, 63}

BlockLens == {64, 65, 127, 128, 129, 192, 320}

LongLens == {NMAX - 49, NMAX - 1, NMAX, NMAX + 1, 2 * NMAX, 2 * NMAX + 1,
             MaxChunks * NMAX + 137}

Seeds == {<<0, 1>>, <<BASE - 1, BASE - 1>>, <<Limb - 1, Limb - 1>>}

Patterns == {"ff", "wiki", "ramp"}

Builds == BOOLEAN \X BOOLEAN

Calls ==
    (Builds \X ((Patterns \X (ShortLens \cup BlockLens)) \cup {<<"null", 0>>}))
        \cup ({<<TRUE, TRUE>>} \X (Patterns \X LongLens))

\* The caller's split offsets of a buffer of length l.
Splits(l) == {0, 1, 16, 63, 64, 100, l \div 2, l - 1, l} \cap (0..l)

SplitLens == {0, 1, 40, 64, 130, 200}

SplitLongLens == {NMAX + 137}

SplitCalls ==
    (Builds \X ((Patterns \X SplitLens) \cup {<<"null", 0>>}))
        \cup ({<<TRUE, TRUE>>} \X ({"ramp"} \X SplitLongLens))

StartCall(a, off, l) ==
    /\ arg_adler' = a
    /\ first' = off
    /\ n' = l
    /\ pc' = "entry"
    /\ adler' = 0
    /\ sum2' = 0
    /\ buf' = off
    /\ len' = l
    /\ k' = 0
    /\ vs1' = setzero_si512
    /\ vs2' = setzero_si512
    /\ vs3' = setzero_si512
    /\ vs2_1' = setzero_si512
    /\ vs1_0' = setzero_si512
    /\ delegate' = "none"
    /\ ret' = ZeroW
    /\ ref_sum1' = 0
    /\ ref_sum2' = ZeroW
    /\ ref_carry' = 0

InitCall(bd, bf, sd, sp) ==
    /\ X86_SSE41_ADLER32 = bd[1]
    /\ X86_AVX2_ADLER32 = bd[2]
    /\ B = bf[1]
    /\ N = bf[2]
    /\ seed = sd
    /\ split = sp
    /\ phase = "whole"
    /\ results = <<>>
    /\ arg_adler = sd
    /\ first = 0
    /\ n = bf[2]
    /\ pc = "entry"
    /\ adler = 0
    /\ sum2 = 0
    /\ buf = 0
    /\ len = bf[2]
    /\ k = 0
    /\ vs1 = setzero_si512
    /\ vs2 = setzero_si512
    /\ vs3 = setzero_si512
    /\ vs2_1 = setzero_si512
    /\ vs1_0 = setzero_si512
    /\ delegate = "none"
    /\ ret = ZeroW
    /\ overflow = FALSE
    /\ ref_sum1 = 0
    /\ ref_sum2 = ZeroW
    /\ ref_carry = 0

Init == \E c \in Calls, sd \in Seeds : InitCall(c[1], c[2], sd, 0)

Next ==
    \/ DispatchSSE41
    \/ DispatchAVX2
    \/ CornerLen1
    \/ CornerNull
    \/ CornerLen16
    \/ EnterKernel
    \/ ChunkBegin
    \/ Peel
    \/ NoPeel
    \/ Unrolled
    \/ ChunkEnd
    \/ TailCall

Spec == Init /\ [][Next]_vars

\* The call is straight-line code on one thread: whenever a step is possible
\* it is eventually taken.  Which steps a call takes depends on its length and
\* the build only, so here one pattern and one seed run over every length up
\* to a few blocks and over the long lengths.
FairLens == 0..200

FairCalls ==
    (Builds \X (({"ramp"} \X FairLens) \cup {<<"null", 0>>}))
        \cup ({<<TRUE, TRUE>>} \X ({"ramp"} \X LongLens))

FairInit == \E c \in FairCalls : InitCall(c[1], c[2], <<0, 1>>, 0)

FairSpec == FairInit /\ [][Next]_vars /\ WF_vars(Next)

(***************************************************************************)
(* The composability caller: after the call over the whole buffer, a call  *)
(* over B[0..split), then one over B[split..N) seeded with its result.     *)
(***************************************************************************)
CallPrefix ==
    /\ pc = "done"
    /\ phase = "whole"
    /\ phase' = "prefix"
    /\ results' = Append(results, ret)
    /\ StartCall(seed, 0, split)
    /\ UNCHANGED <<X86_SSE41_ADLER32, X86_AVX2_ADLER32, B, N, seed, split, overflow>>

CallSuffix ==
    /\ pc = "done"
    /\ phase = "prefix"
    /\ phase' = "suffix"
    /\ results' = Append(results, ret)
    /\ StartCall(ret, split, N - split)
    /\ UNCHANGED <<X86_SSE41_ADLER32, X86_AVX2_ADLER32, B, N, seed, split, overflow>>

InitSplit ==
    \E c \in SplitCalls, sd \in Seeds :
        \E sp \in Splits(c[2][2]) : InitCall(c[1], c[2], sd, sp)

NextSplit ==
    \/ Next
    \/ CallPrefix
    \/ CallSuffix

SplitSpec == InitSplit /\ [][NextSplit]_vars

(***************************************************************************)
(* Vocabulary of the claims.                                               *)
(***************************************************************************)
\* A checksum state: both sums in [0, BASE).
ValidState(packed) == packed[1] < BASE /\ packed[2] < BASE

\* The scalar definition applied byte by byte to this call's bytes from this
\* call's initial state.
ScalarAdler32 ==
    Pack(ScalarFold(<<arg_adler[2], arg_adler[1]>>, first, first + n))

\* The mathematical total of the 16 lanes of a register.
LaneTotal(v) == HSum(v, 0, 1)

\* The last byte of this call's buffer, exclusive.
BufEnd == first + n

\* C1: from every checksum state, for every buffer and length, the call
\* returns the packed value the scalar byte-by-byte recurrence yields (also
\* from an out-of-range input word once a byte is consumed); "Wikipedia"
\* from (1, 0) gives 0x11E60398.
C1_Equivalence ==
    /\ (pc = "done" /\ B # "null" /\ (ValidState(arg_adler) \/ n > 0))
          => ret = ScalarAdler32
    /\ (pc = "done" /\ B = "wiki" /\ first = 0 /\ n = 9 /\ arg_adler = <<0, 1>>)
          => ret = <<4582, 920>>

C1_Witness ==
    /\ pc = "done"
    /\ B = "ramp"
    /\ n = MaxChunks * NMAX + 137
    /\ arg_adler = <<BASE - 1, BASE - 1>>
    /\ delegate = "adler32_len_16"
    /\ buf = first + n - (n % 64)
    /\ ret = ScalarAdler32

\* C2: a call over B[0..split) followed by a call over B[split..N) seeded
\* with its result returns what the one call over the whole of B returned.
C2_Composable ==
    (phase = "suffix" /\ pc = "done" /\ B # "null") => ret = results[1]

C2_Witness ==
    /\ phase = "suffix"
    /\ pc = "done"
    /\ B = "ramp"
    /\ N = NMAX + 137
    /\ split = 100
    /\ buf > first
    /\ ret = results[1]
    /\ results[2] # results[1]

\* C3: no 32-bit lane operation, shift or horizontal sum of the kernel ever
\* carries out of 32 bits, and 2 * NMAX bytes of 0xFF give the scalar result.
C3_NoOverflow ==
    /\ ~overflow
    /\ (pc = "done" /\ B = "ff" /\ n = 2 * NMAX) => ret = ScalarAdler32

C3_Witness ==
    /\ pc = "done"
    /\ B = "ff"
    /\ n = 2 * NMAX
    /\ arg_adler = <<Limb - 1, Limb - 1>>
    /\ buf = first + n - (n % 64)
    /\ ~overflow

\* The handler the entry dispatch of the source selects for a call that
\* returns without entering the block loop.
EntryDelegate ==
    IF X86_SSE41_ADLER32 /\ n < 32 THEN "adler32_sse41"
    ELSE IF X86_AVX2_ADLER32 /\ n < 64 THEN "adler32_avx2"
    ELSE IF ~X86_SSE41_ADLER32 /\ ~X86_AVX2_ADLER32 /\ n = 1 THEN "adler32_len_1"
    ELSE IF ~X86_SSE41_ADLER32 /\ ~X86_AVX2_ADLER32 /\ B = "null" THEN "none"
    ELSE "adler32_len_16"

\* C4 as stated: a zero-length or null-buffer call goes to the tail handler in
\* every build and returns the scalar definition's value.
C4_Original ==
    (pc = "done" /\ (n = 0 \/ B = "null"))
        => (delegate = "adler32_len_16" /\ ret = ScalarAdler32)

\* C4, amended: a zero-length call on a non-null buffer returns the input
\* state with each half reduced mod BASE (1 from (1, 0)) in every build, through
\* adler32_sse41 if compiled in, else adler32_avx2 if compiled in, else the tail
\* handler; with no narrow kernel a null buffer returns 1 from inside the kernel.
C4_ZeroLength ==
    (pc = "done" /\ (n = 0 \/ B = "null"))
        => /\ delegate = EntryDelegate
           /\ B # "null" => ret = <<arg_adler[1] % BASE, arg_adler[2] % BASE>>
           /\ (B = "null" /\ ~X86_SSE41_ADLER32 /\ ~X86_AVX2_ADLER32)
                 => (ret = <<0, 1>> /\ delegate = "none")
           /\ arg_adler = <<0, 1>> => ret = <<0, 1>>

C4_Witness ==
    /\ pc = "done"
    /\ B = "null"
    /\ ~X86_SSE41_ADLER32
    /\ ~X86_AVX2_ADLER32
    /\ arg_adler = <<BASE - 1, BASE - 1>>
    /\ ret = <<0, 1>>
    /\ delegate = "none"

\* C5 as stated: at every boundary of the outer loop and at the hand-off to
\* the tail handler, adler and sum2 are below BASE, for every input word.
C5_Original ==
    pc = "outer" => (adler < BASE /\ sum2 < BASE)

\* C5, amended: there adler and sum2 are 16-bit values; they are below BASE
\* after every iteration of the outer loop, and before the first one exactly
\* when the input state was.
C5_StateRange ==
    pc = "outer"
        => /\ adler < Limb
           /\ sum2 < Limb
           /\ (buf > first \/ ValidState(arg_adler)) => (adler < BASE /\ sum2 < BASE)
           /\ buf = first => (adler = arg_adler[2] /\ sum2 = arg_adler[1])

C5_Witness ==
    /\ pc = "outer"
    /\ buf > first
    /\ len >= 64
    /\ arg_adler = <<Limb - 1, Limb - 1>>
    /\ adler < BASE
    /\ sum2 < BASE

\* C6 as stated: below 64 bytes the loop never runs; lengths under 16 go to the
\* scalar tail handler, the others to a narrower kernel.
C6_Original ==
    (pc = "done" /\ n < 64 /\ B # "null")
        => /\ buf = first
           /\ n < 16 => delegate \in {"adler32_len_16", "adler32_len_1"}
           /\ n >= 16 => delegate \in {"adler32_sse41", "adler32_avx2"}

\* What the handler named d returns for this call.
DelegateResults(d) ==
    CASE d = "adler32_sse41"  -> adler32_sse41(arg_adler, first, n)
      [] d = "adler32_avx2"   -> adler32_avx2(arg_adler, first, n)
      [] d = "adler32_len_1"  -> {adler32_len_1(arg_adler[2], first, arg_adler[1])}
      [] d = "adler32_len_16" -> {adler32_len_16(arg_adler[2], first, n, arg_adler[1])}
      [] OTHER                -> {<<0, 1>>}

\* C6, amended: below 64 bytes the loop never runs and the call returns its
\* delegate's result; the delegate is adler32_sse41 below 32 bytes if compiled
\* in, else adler32_avx2 if compiled in, else adler32_len_1 for one byte and 1
\* for a null buffer if neither is compiled in, else adler32_len_16.
C6_Dispatch ==
    (pc = "done" /\ n < 64)
        => /\ buf = first
           /\ k = 0
           /\ vs3 = setzero_si512
           /\ delegate = EntryDelegate
           /\ ret \in DelegateResults(delegate)

C6_Witness ==
    /\ pc = "done"
    /\ n = 31
    /\ X86_SSE41_ADLER32
    /\ ~X86_AVX2_ADLER32
    /\ delegate = "adler32_sse41"
    /\ buf = first

\* C7: every chunk is a multiple of 64 bytes, at least 64 and at most
\* min(len, NMAX), and takes exactly that much off len; every iteration of the
\* unrolled loop lowers k; and the call returns.
C7_Terminates ==
    /\ [][(pc = "outer" /\ pc' = "peel")
            => (k' % 64 = 0 /\ 64 <= k' /\ k' <= len /\ k' <= NMAX /\ len' = len - k')]_vars
    /\ [][(pc = "inner" /\ pc' = "inner") => (0 <= k' /\ k' < k)]_vars
    /\ <>(pc = "done")

C7_Witness ==
    /\ pc = "done"
    /\ n = MaxChunks * NMAX + 137
    /\ len < 64
    /\ buf > first

\* C8: after the peel k is a multiple of 128 and is 0 when the unrolled loop
\* exits; consumed plus remaining bytes is the call's length; every load lies
\* inside the buffer; the tail handler gets the fewer than 64 unconsumed bytes
\* and its result is returned unchanged.
C8_ByteAccounting ==
    /\ k >= 0
    /\ pc = "inner" => k % 128 = 0
    /\ (pc = "outer" /\ buf > first) => k = 0
    /\ pc \in {"peel", "inner"} => buf + k + len = BufEnd
    /\ pc = "outer" => buf + len = BufEnd
    /\ (pc = "peel" /\ k % 128 # 0) => buf + 64 <= BufEnd
    /\ (pc = "inner" /\ k >= 128) => buf + 128 <= BufEnd
    /\ (pc = "done" /\ buf > first)
          => /\ delegate = "adler32_len_16"
             /\ len < 64
             /\ buf + len = BufEnd
             /\ buf = first + n - (n % 64)
             /\ ret = adler32_len_16(adler, buf, len, sum2)

C8_Witness ==
    /\ pc = "done"
    /\ n = NMAX - 49
    /\ buf = first + n - 63
    /\ len = 63
    /\ delegate = "adler32_len_16"

\* C9: inside a chunk the lanes of vs1 total the unreduced scalar sum1, the
\* lanes of vs3 total the sum1 values held before each consumed sub-block, and
\* the lanes of vs2 and vs2_1 plus 64 times those of vs3 total the unreduced
\* scalar sum2.
C9_CarryInvariant ==
    pc \in {"peel", "inner"}
        => /\ LaneTotal(vs1) = WNat(ref_sum1)
           /\ LaneTotal(vs3) = WNat(ref_carry)
           /\ WAdd(WAdd(LaneTotal(vs2), LaneTotal(vs2_1)), WShl(LaneTotal(vs3), 6))
                 = ref_sum2

C9_Witness ==
    /\ pc = "inner"
    /\ k = 0
    /\ B = "ramp"
    /\ buf = first + 85 * 64
    /\ ref_carry > 0
    /\ LaneTotal(vs3) = WNat(ref_carry)
    /\ LaneTotal(vs2_1) # ZeroW

\* C10: vs1 is zero in every odd lane at every point of the call, so its
\* partial horizontal sum over the even lanes is its full horizontal sum.
C10_LanePlacement ==
    /\ \A j \in Lanes : j % 2 = 1 => vs1[j] = ZeroW
    /\ partial_hsum(vs1) = reduce_add_epu32(vs1)

C10_Witness ==
    /\ pc = "inner"
    /\ k = 0
    /\ vs1[14] # ZeroW
    /\ vs1[0] # ZeroW
    /\ partial_hsum(vs1) = reduce_add_epu32(vs1)

====
